---- MODULE Spec2Model ----
(***************************************************************************)
(* Model of apps/face_recognition/views.py: the upload / index / search /  *)
(* cleanup workflow (upload_images, index_faces_if_new, load_cache,        *)
(* save_cache, file_hash, upload_to_s3, ensure_collection_exists) and the  *)
(* archive workflow (download_zip).                                        *)
(*                                                                         *)
(* The local scratch directory, the cache file, the S3 bucket and the      *)
(* Rekognition collection are shared state; every request handler is a     *)
(* process whose steps are the handler's file-system and remote calls.     *)
(* Spec runs the handlers one request at a time; SpecConc lets two upload  *)
(* requests be in flight at once.                                          *)
(***************************************************************************)
EXTENDS Integers, Sequences, FiniteSets, TLC

\* ---------------------------------------------------------------- bounds
\* Requests received over a run.
MaxRequests == 2
\* Gallery files in one upload request.
MaxGallery == 2
\* Keys in one download_zip request.
MaxKeys == 2
\* Requests received over a run with overlapping requests.
MaxConcRequests == 3
\* How many of them may be in flight together with others.
MaxOverlap == 2

\* Request handlers that can be in flight at once (SpecConc).
Slots == {1, 2}

\* ------------------------------------------------------------ data model
\* File names a client sends.
Names == {"a.jpg", "b.PNG", "n.txt"}
\* File contents (byte strings), abstracted to small numbers.
Contents == {1, 2}
\* "No such file" / "no such object".
NoFile == 0

\* request.FILES.get("reference_image") when the field is missing.
NoRef == [name |-> "", content |-> NoFile]

\* The extension of each name and str.lower() on it.
Ext(n) == CASE n = "a.jpg" -> ".jpg"
            [] n = "b.PNG" -> ".PNG"
            [] n = "n.txt" -> ".txt"
            [] OTHER -> ""
Lower(e) == CASE e = ".PNG" -> ".png"
              [] OTHER -> e
ImageExts == {".jpg", ".jpeg", ".png"}
\* filename.lower().endswith((".jpg", ".jpeg", ".png"))
HasImageExt(n) == Lower(Ext(n)) \in ImageExts

\* hashlib.md5(bytes).hexdigest(): one digest per content (no collisions
\* among the modelled contents).
MD5(c) == CASE c = 1 -> "c4ca"
            [] c = 2 -> "c81e"
            [] c = 3 -> "eccb"
            [] OTHER -> "d41d"
Hashes == {MD5(c) : c \in Contents}

\* A cache mapping (the dict of load_cache / save_cache): fingerprint ->
\* filename, "" where the dict has no such key.
NoEntry == ""
EmptyCache == [h \in Hashes |-> NoEntry]

\* FACE_MATCH_THRESHOLD = int(os.getenv("FACE_MATCH_THRESHOLD", 90))
FACE_MATCH_THRESHOLD == 90

\* The remote service's similarity score (0..100) of the face in the query
\* bytes against an indexed face: each modelled content shows one person.
Similarity(query, indexed) == IF query = indexed THEN 100 ELSE 0

\* ----------------------------------------------------------------- state
VARIABLES
    scratch,       \* UPLOAD_FOLDER: name -> content, NoFile when absent
    s3,            \* the bucket: key -> content, NoFile when absent
    cacheFile,     \* CACHE_FILE: [state, data]
    collection,    \* whether the Rekognition collection exists
    faces,         \* indexed faces: [id, content, by]; by is history: the
                   \* handler that indexed the face, 0 once it has returned
    nreq,          \* requests received so far
    pc,            \* per upload handler: where it is
    method,        \* request.method, "" when no request is being handled
    nfiles,        \* len(request.FILES.getlist("gallery_images"))
    hasref,        \* whether request.FILES holds "reference_image"
    gallery,       \* the gallery files read from the request so far
    ref,           \* the reference file, once read from the request
    saved,         \* len(saved_gallery_paths)
    cache,         \* index_faces_if_new: the loaded dict
    idx,           \* index_faces_if_new: position of the for loop
    img_hash,      \* index_faces_if_new: img_hash of the current file
    outcomes,      \* per gallery file handled by the loop, what happened
    listing,       \* os.listdir(UPLOAD_FOLDER) still to be removed
    matches,       \* the faces of response["FaceMatches"]
    keys,          \* current_batch_matches
    status,        \* HTTP status of the response, 0 while in flight
    error,         \* the call whose exception ended the request, or ""
    written,       \* history: names this request wrote to UPLOAD_FOLDER
    victim,        \* history: another request's sweep removed a file this
                   \* request had written and not finished using
    lastAdded,     \* history: [fp, name, bytes] of this handler's latest
                   \* cache[img_hash] = filename, bytes being what was indexed
    handled,       \* history: gallery files the indexing loop has passed
    recorded,      \* history: fingerprints put in a cache dict after a
                   \* successful index call
    overlapped,    \* history: a request was received while another upload
                   \* handler was at work
    zpc,           \* download_zip: where it is
    zreq,          \* download_zip: the request, [method, body]
    zkeys,         \* download_zip: keys
    zidx,          \* download_zip: position of the for loop
    zentries,      \* download_zip: the archive's entries, in order
    zfetched,      \* history: per key handled, whether get_object succeeded
    zstatus        \* download_zip: HTTP status, 0 while in flight

ctlVars == <<pc, status, error>>
inputVars == <<method, nfiles, hasref, gallery, ref>>
loopVars == <<cache, idx, img_hash, outcomes, lastAdded>>
respVars == <<listing, matches, keys>>
uploadVars == <<ctlVars, inputVars, saved, loopVars, respVars, written, victim>>
sharedVars == <<scratch, s3, cacheFile, collection, faces, nreq>>
histVars == <<handled, recorded, overlapped>>
zipVars == <<zpc, zreq, zkeys, zidx, zentries, zfetched, zstatus>>
vars == <<sharedVars, uploadVars, histVars, zipVars>>

\* No cache entry added yet.
NoAdded == [fp |-> NoEntry, name |-> "", bytes |-> NoFile]

\* No download_zip request is being handled.
NoZipRequest == [method |-> "", body |-> <<"none">>]

\* Sequences over S of length lo..hi.
SeqsOf(S, lo, hi) == UNION {[1..n -> S] : n \in lo..hi}

Init ==
    /\ scratch = [n \in Names |-> NoFile]
    /\ s3 = [n \in Names |-> NoFile]
    /\ cacheFile = [state |-> "absent", data |-> EmptyCache]
    /\ collection = FALSE
    /\ faces = {}
    /\ nreq = 0
    /\ pc = [r \in Slots |-> "idle"]
    /\ method = [r \in Slots |-> ""]
    /\ nfiles = [r \in Slots |-> 0]
    /\ hasref = [r \in Slots |-> FALSE]
    /\ gallery = [r \in Slots |-> << >>]
    /\ ref = [r \in Slots |-> NoRef]
    /\ saved = [r \in Slots |-> 0]
    /\ cache = [r \in Slots |-> EmptyCache]
    /\ idx = [r \in Slots |-> 1]
    /\ img_hash = [r \in Slots |-> NoEntry]
    /\ outcomes = [r \in Slots |-> << >>]
    /\ listing = [r \in Slots |-> {}]
    /\ matches = [r \in Slots |-> {}]
    /\ keys = [r \in Slots |-> {}]
    /\ status = [r \in Slots |-> 0]
    /\ error = [r \in Slots |-> ""]
    /\ written = [r \in Slots |-> {}]
    /\ victim = [r \in Slots |-> FALSE]
    /\ lastAdded = [r \in Slots |-> NoAdded]
    /\ handled = {}
    /\ recorded = {}
    /\ overlapped = FALSE
    /\ zpc = "idle"
    /\ zreq = NoZipRequest
    /\ zkeys = << >>
    /\ zidx = 1
    /\ zentries = << >>
    /\ zfetched = << >>
    /\ zstatus = 0

\* No handler is in flight.
AllIdle == zpc = "idle" /\ \A r \in Slots : pc[r] = "idle"

\* An uncaught exception: Django answers 500 and the handler is over.
Raise(r, call) ==
    /\ pc' = [pc EXCEPT ![r] = "done"]
    /\ status' = [status EXCEPT ![r] = 500]
    /\ error' = [error EXCEPT ![r] = call]

\* return JsonResponse(..., status=code)
Respond(r, code) ==
    /\ pc' = [pc EXCEPT ![r] = "done"]
    /\ status' = [status EXCEPT ![r] = code]
    /\ error' = error

\* The handler goes on to its next step.
Goto(r, label) ==
    /\ pc' = [pc EXCEPT ![r] = label]
    /\ UNCHANGED <<status, error>>

\* ------------------------------------------------------- upload_images
\* A request with up to maxg gallery files arrives at upload_images, one of
\* at most maxr requests of the run; a method other than POST is answered 400
\* at once (lines 115-116). The files themselves are drawn when the handler
\* reads them from the request.
Receive(r, maxg, maxr) ==
    /\ pc[r] = "idle"
    /\ nreq < maxr
    /\ nreq' = nreq + 1
    /\ \E m \in {"POST", "GET"}, n \in 0..maxg, hr \in BOOLEAN :
          /\ method' = [method EXCEPT ![r] = m]
          /\ nfiles' = [nfiles EXCEPT ![r] = n]
          /\ hasref' = [hasref EXCEPT ![r] = hr]
          /\ IF m # "POST" THEN Respond(r, 400) ELSE Goto(r, "ensure")
    /\ overlapped' = (overlapped \/ \E q \in Slots \ {r} : pc[q] \notin {"idle", "done"})
    /\ UNCHANGED <<scratch, s3, cacheFile, collection, faces>>
    /\ UNCHANGED <<gallery, ref, saved, loopVars, respVars, written, victim>>
    /\ UNCHANGED <<handled, recorded, zipVars>>

\* A faulty EnsureCollection: the test of line 123 looks at the gallery list
\* only.
EnsureCollectionGalleryOnly(r) ==
    /\ pc[r] = "ensure"
    /\ collection' = TRUE
    /\ IF nfiles[r] = 0 THEN Respond(r, 400) ELSE Goto(r, "persist")
    /\ UNCHANGED <<scratch, s3, cacheFile, faces, nreq>>
    /\ UNCHANGED <<inputVars, saved, loopVars, respVars, written, victim>>
    /\ UNCHANGED <<histVars, zipVars>>

\* ensure_collection_exists() returns (the collection is created, or it
\* exists already and ResourceAlreadyExistsException is swallowed); then the
\* request is rejected when the gallery list or the reference is missing
\* (lines 118-124).
EnsureCollection(r) ==
    /\ pc[r] = "ensure"
    /\ collection' = TRUE
    /\ IF nfiles[r] = 0 \/ ~hasref[r]
       THEN Respond(r, 400)
       ELSE Goto(r, "persist")
    /\ UNCHANGED <<scratch, s3, cacheFile, faces, nreq>>
    /\ UNCHANGED <<inputVars, saved, loopVars, respVars, written, victim>>
    /\ UNCHANGED <<histVars, zipVars>>

\* create_collection raises anything other than ResourceAlreadyExists: the
\* exception is not caught (lines 59-62) and the request aborts.
EnsureCollectionError(r) ==
    /\ pc[r] = "ensure"
    /\ Raise(r, "create_collection")
    /\ UNCHANGED sharedVars
    /\ UNCHANGED <<inputVars, saved, loopVars, respVars, written, victim>>
    /\ UNCHANGED <<histVars, zipVars>>

\* Lines 128-132: the next gallery file of the request, named in N, is
\* written to UPLOAD_FOLDER under its own name.
SaveGallery(r, N) ==
    /\ pc[r] = "persist"
    /\ \E file \in [name : N, content : Contents] :
          /\ gallery' = [gallery EXCEPT ![r] = Append(@, file)]
          /\ scratch' = [scratch EXCEPT ![file.name] = file.content]
          /\ written' = [written EXCEPT ![r] = @ \cup {file.name}]
    /\ Goto(r, "upload")
    /\ UNCHANGED <<s3, cacheFile, collection, faces, nreq>>
    /\ UNCHANGED <<method, nfiles, hasref, ref, saved, loopVars, respVars, victim>>
    /\ UNCHANGED <<histVars, zipVars>>

\* The step after the append of line 134: the next gallery file, or the
\* reference file when every gallery file is saved.
AfterUpload(r) == IF saved[r] + 1 < nfiles[r] THEN "persist" ELSE "saveref"

\* Lines 133-134: upload_to_s3(path, filename) puts the bytes now at path
\* under key filename (overwriting), and the path is appended. A path that
\* is gone raises FileNotFoundError.
UploadToS3(r) ==
    /\ pc[r] = "upload"
    /\ LET filename == gallery[r][saved[r] + 1].name IN
          IF scratch[filename] = NoFile
          THEN /\ Raise(r, "upload_file:FileNotFoundError")
               /\ UNCHANGED <<s3, saved>>
          ELSE /\ s3' = [s3 EXCEPT ![filename] = scratch[filename]]
               /\ saved' = [saved EXCEPT ![r] = @ + 1]
               /\ Goto(r, AfterUpload(r))
    /\ UNCHANGED <<scratch, cacheFile, collection, faces, nreq>>
    /\ UNCHANGED <<inputVars, loopVars, respVars, written, victim>>
    /\ UNCHANGED <<histVars, zipVars>>

\* s3.upload_file raises (network, credentials): nothing catches it.
UploadToS3Error(r) ==
    /\ pc[r] = "upload"
    /\ Raise(r, "upload_file")
    /\ UNCHANGED sharedVars
    /\ UNCHANGED <<inputVars, saved, loopVars, respVars, written, victim>>
    /\ UNCHANGED <<histVars, zipVars>>

\* A faulty SaveRef: the reference file is taken from the request and never
\* written to UPLOAD_FOLDER.
SaveRefUnwritten(r, N) ==
    /\ pc[r] = "saveref"
    /\ \E file \in [name : N, content : Contents] :
          ref' = [ref EXCEPT ![r] = file]
    /\ Goto(r, "load")
    /\ UNCHANGED sharedVars
    /\ UNCHANGED <<method, nfiles, hasref, gallery, saved, loopVars, respVars>>
    /\ UNCHANGED <<written, victim, histVars, zipVars>>

\* Lines 136-140: the reference file of the request, named in N, is written
\* to UPLOAD_FOLDER under its own name (and not uploaded).
SaveRef(r, N) ==
    /\ pc[r] = "saveref"
    /\ \E file \in [name : N, content : Contents] :
          /\ ref' = [ref EXCEPT ![r] = file]
          /\ scratch' = [scratch EXCEPT ![file.name] = file.content]
          /\ written' = [written EXCEPT ![r] = @ \cup {file.name}]
    /\ Goto(r, "load")
    /\ UNCHANGED <<s3, cacheFile, collection, faces, nreq>>
    /\ UNCHANGED <<method, nfiles, hasref, gallery, saved, loopVars, respVars, victim>>
    /\ UNCHANGED <<histVars, zipVars>>

\* ---------------------------------------------------------- cache file
\* A faulty LoadCache: every batch starts from an empty dict.
LoadCacheFresh(r) ==
    /\ pc[r] = "load"
    /\ cache' = [cache EXCEPT ![r] = EmptyCache]
    /\ Goto(r, "loop")
    /\ UNCHANGED sharedVars
    /\ UNCHANGED <<inputVars, saved, idx, img_hash, outcomes, lastAdded>>
    /\ UNCHANGED <<respVars, written, victim>>
    /\ UNCHANGED <<histVars, zipVars>>

\* load_cache (lines 45-49): {} when CACHE_FILE does not exist, else
\* json.load of it; a file that is not JSON (open(..., "w") has truncated it
\* and nothing is written yet) makes json.load raise JSONDecodeError, which
\* nothing catches. Line 80 of index_faces_if_new.
LoadCache(r) ==
    /\ pc[r] = "load"
    /\ CASE cacheFile.state = "absent" ->
              /\ cache' = [cache EXCEPT ![r] = EmptyCache]
              /\ Goto(r, "loop")
         [] cacheFile.state = "json" ->
              /\ cache' = [cache EXCEPT ![r] = cacheFile.data]
              /\ Goto(r, "loop")
         [] OTHER ->
              /\ cache' = cache
              /\ Raise(r, "json.load:JSONDecodeError")
    /\ UNCHANGED sharedVars
    /\ UNCHANGED <<inputVars, saved, idx, img_hash, outcomes, lastAdded>>
    /\ UNCHANGED <<respVars, written, victim>>
    /\ UNCHANGED <<histVars, zipVars>>

\* save_cache, line 53: open(CACHE_FILE, "w") truncates the file.
SaveCacheOpen(r) ==
    /\ pc[r] = "save"
    /\ cacheFile' = [state |-> "truncated", data |-> EmptyCache]
    /\ Goto(r, "dump")
    /\ UNCHANGED <<scratch, s3, collection, faces, nreq>>
    /\ UNCHANGED <<inputVars, saved, loopVars, respVars, written, victim>>
    /\ UNCHANGED <<histVars, zipVars>>

\* A faulty SaveCacheDump: only the entries naming a file of this batch are
\* written.
SaveCacheDumpBatchOnly(r) ==
    /\ pc[r] = "dump"
    /\ cacheFile' =
          [state |-> "json",
           data |-> [h \in Hashes |->
                       IF \E i \in 1..saved[r] : gallery[r][i].name = cache[r][h]
                       THEN cache[r][h] ELSE NoEntry]]
    /\ Goto(r, "search")
    /\ UNCHANGED <<scratch, s3, collection, faces, nreq>>
    /\ UNCHANGED <<inputVars, saved, loopVars, respVars, written, victim>>
    /\ UNCHANGED <<histVars, zipVars>>

\* save_cache, line 54: json.dump(cache, f) and the close of the file: the
\* whole dict replaces what was there.
SaveCacheDump(r) ==
    /\ pc[r] = "dump"
    /\ cacheFile' = [state |-> "json", data |-> cache[r]]
    /\ Goto(r, "search")
    /\ UNCHANGED <<scratch, s3, collection, faces, nreq>>
    /\ UNCHANGED <<inputVars, saved, loopVars, respVars, written, victim>>
    /\ UNCHANGED <<histVars, zipVars>>

\* --------------------------------------------------- index_faces_if_new
\* Where the for loop of line 82 goes after the file at idx: the next path,
\* or save_cache when the paths are exhausted.
AfterFile(r) == IF idx[r] < saved[r] THEN "loop" ELSE "save"

\* The file at idx is done without an index call being pending.
NextFile(r, outcome) ==
    /\ idx' = [idx EXCEPT ![r] = @ + 1]
    /\ outcomes' = [outcomes EXCEPT ![r] = Append(@, outcome)]
    /\ handled' = handled \cup {gallery[r][idx[r]]}
    /\ Goto(r, AfterFile(r))

\* Lines 83-90: the extension test, file_hash(path) and the cache lookup for
\* the path at idx. file_hash reads the bytes now at the path; a path that is
\* gone raises FileNotFoundError out of index_faces_if_new.
HashFile(r) ==
    /\ pc[r] = "loop"
    /\ LET filename == gallery[r][idx[r]].name IN
           IF ~HasImageExt(filename)
           THEN /\ NextFile(r, "noext")
                /\ UNCHANGED img_hash
           ELSE IF scratch[filename] = NoFile
           THEN /\ Raise(r, "file_hash:FileNotFoundError")
                /\ UNCHANGED <<idx, outcomes, handled, img_hash>>
           ELSE IF cache[r][MD5(scratch[filename])] # NoEntry
           THEN /\ NextFile(r, "skipped")
                /\ UNCHANGED img_hash
           ELSE /\ img_hash' = [img_hash EXCEPT ![r] = MD5(scratch[filename])]
                /\ Goto(r, "index")
                /\ UNCHANGED <<idx, outcomes, handled>>
    /\ UNCHANGED sharedVars
    /\ UNCHANGED <<inputVars, saved, cache, lastAdded, respVars, written, victim>>
    /\ UNCHANGED <<recorded, overlapped, zipVars>>

\* Lines 93-100: rekognition.index_faces on the S3 object named filename
\* succeeds: the faces of the object's bytes are registered under
\* ExternalImageId = filename, and cache[img_hash] = filename.
IndexFaces(r) ==
    /\ pc[r] = "index"
    /\ LET filename == gallery[r][idx[r]].name IN
          /\ faces' = faces \cup
                 {[id |-> filename, content |-> s3[filename], by |-> r]}
          /\ cache' = [cache EXCEPT ![r][img_hash[r]] = filename]
          /\ lastAdded' = [lastAdded EXCEPT ![r] =
                 [fp |-> img_hash[r], name |-> filename, bytes |-> s3[filename]]]
    /\ recorded' = recorded \cup {img_hash[r]}
    /\ NextFile(r, "indexed")
    /\ UNCHANGED <<scratch, s3, cacheFile, collection, nreq>>
    /\ UNCHANGED <<inputVars, saved, img_hash, respVars, written, victim>>
    /\ UNCHANGED <<overlapped, zipVars>>

\* A faulty IndexFacesError: the failure ends the loop (break for continue).
IndexFacesErrorBreaks(r) ==
    /\ pc[r] = "index"
    /\ idx' = [idx EXCEPT ![r] = @ + 1]
    /\ outcomes' = [outcomes EXCEPT ![r] = Append(@, "failed")]
    /\ handled' = handled \cup {gallery[r][idx[r]]}
    /\ Goto(r, "save")
    /\ UNCHANGED sharedVars
    /\ UNCHANGED <<inputVars, saved, cache, img_hash, lastAdded>>
    /\ UNCHANGED <<respVars, written, victim>>
    /\ UNCHANGED <<recorded, overlapped, zipVars>>

\* Lines 101-102: index_faces raises; the exception is printed and the loop
\* goes on with the next path.
IndexFacesError(r) ==
    /\ pc[r] = "index"
    /\ NextFile(r, "failed")
    /\ UNCHANGED sharedVars
    /\ UNCHANGED <<inputVars, saved, cache, img_hash, lastAdded>>
    /\ UNCHANGED <<respVars, written, victim>>
    /\ UNCHANGED <<recorded, overlapped, zipVars>>

\* ------------------------------------------------------ search, cleanup
\* current_upload_filenames (line 144).
CurrentUploadFilenames(r) == {gallery[r][i].name : i \in 1..saved[r]}

\* search_faces_by_image over the whole collection: the faces whose
\* similarity to the query bytes reaches the threshold (lines 147-152).
SearchFacesByImage(bytes) ==
    {f \in faces : Similarity(bytes, f.content) >= FACE_MATCH_THRESHOLD}

\* current_batch_matches (lines 154-155), as the set of its members.
CurrentBatchMatches(r, found) ==
    {f.id : f \in found} \cap CurrentUploadFilenames(r)

\* Lines 146-167: the reference path is read (FileNotFoundError when it is
\* gone), the collection is searched, and the matches are cut down to the
\* names of this batch. The URLs of lines 157-167 are a function of the keys
\* and change no state.
Search(r) ==
    /\ pc[r] = "search"
    /\ IF scratch[ref[r].name] = NoFile
       THEN /\ Raise(r, "open:FileNotFoundError")
            /\ UNCHANGED <<matches, keys>>
       ELSE LET found == SearchFacesByImage(scratch[ref[r].name]) IN
            /\ matches' = [matches EXCEPT ![r] = found]
            /\ keys' = [keys EXCEPT ![r] = CurrentBatchMatches(r, found)]
            /\ Goto(r, "cleanup")
    /\ UNCHANGED sharedVars
    /\ UNCHANGED <<inputVars, saved, loopVars, listing, written, victim>>
    /\ UNCHANGED <<histVars, zipVars>>

\* search_faces_by_image raises (no face in the query, network): nothing
\* catches it.
SearchError(r) ==
    /\ pc[r] = "search"
    /\ scratch[ref[r].name] # NoFile
    /\ Raise(r, "search_faces_by_image")
    /\ UNCHANGED sharedVars
    /\ UNCHANGED <<inputVars, saved, loopVars, respVars, written, victim>>
    /\ UNCHANGED <<histVars, zipVars>>

\* Line 169: os.listdir(UPLOAD_FOLDER), every file of the directory.
ListDir(r) ==
    /\ pc[r] = "cleanup"
    /\ LET found == {n \in Names : scratch[n] # NoFile} IN
          /\ listing' = [listing EXCEPT ![r] = found]
          /\ IF found = {} THEN Respond(r, 200) ELSE Goto(r, "remove")
    /\ UNCHANGED sharedVars
    /\ UNCHANGED <<inputVars, saved, loopVars, matches, keys, written, victim>>
    /\ UNCHANGED <<histVars, zipVars>>

\* The names handler q has written to UPLOAD_FOLDER and will still read: the
\* gallery file being uploaded, the image files not yet hashed, and the
\* reference file until the search has read it.
StillUsed(q) ==
    LET uploading == IF pc[q] = "upload"
                     THEN {gallery[q][saved[q] + 1].name} ELSE {}
        from == CASE pc[q] \in {"persist", "upload", "saveref", "load"} -> 1
                  [] pc[q] = "loop" -> idx[q]
                  [] pc[q] = "index" -> idx[q] + 1
                  [] OTHER -> saved[q] + 1
        tohash == {gallery[q][j].name :
                     j \in {k \in from..saved[q] : HasImageExt(gallery[q][k].name)}}
        toread == IF pc[q] \in {"load", "loop", "index", "save", "dump", "search"}
                  THEN {ref[q].name} ELSE {}
    IN  uploading \cup tohash \cup toread

\* Line 170: os.remove of one listed name (the order of os.listdir is
\* arbitrary); a name that is gone by now raises FileNotFoundError. After the
\* last one, line 172 answers 200.
Remove(r) ==
    /\ pc[r] = "remove"
    /\ \E n \in listing[r] :
          IF scratch[n] = NoFile
          THEN /\ Raise(r, "os.remove:FileNotFoundError")
               /\ UNCHANGED <<scratch, listing, victim>>
          ELSE /\ scratch' = [scratch EXCEPT ![n] = NoFile]
               /\ listing' = [listing EXCEPT ![r] = @ \ {n}]
               /\ victim' = [q \in Slots |->
                               victim[q] \/ (q # r /\ n \in StillUsed(q))]
               /\ IF listing[r] = {n} THEN Respond(r, 200) ELSE Goto(r, "remove")
    /\ UNCHANGED <<s3, cacheFile, collection, faces, nreq>>
    /\ UNCHANGED <<inputVars, saved, loopVars, matches, keys, written>>
    /\ UNCHANGED <<histVars, zipVars>>

\* The response has been sent: the handler's locals are gone, and the faces
\* it indexed are those of an earlier request from now on.
Return(r) ==
    /\ pc[r] = "done"
    /\ pc' = [pc EXCEPT ![r] = "idle"]
    /\ status' = [status EXCEPT ![r] = 0]
    /\ error' = [error EXCEPT ![r] = ""]
    /\ method' = [method EXCEPT ![r] = ""]
    /\ nfiles' = [nfiles EXCEPT ![r] = 0]
    /\ hasref' = [hasref EXCEPT ![r] = FALSE]
    /\ gallery' = [gallery EXCEPT ![r] = << >>]
    /\ ref' = [ref EXCEPT ![r] = NoRef]
    /\ saved' = [saved EXCEPT ![r] = 0]
    /\ cache' = [cache EXCEPT ![r] = EmptyCache]
    /\ idx' = [idx EXCEPT ![r] = 1]
    /\ img_hash' = [img_hash EXCEPT ![r] = NoEntry]
    /\ outcomes' = [outcomes EXCEPT ![r] = << >>]
    /\ lastAdded' = [lastAdded EXCEPT ![r] = NoAdded]
    /\ listing' = [listing EXCEPT ![r] = {}]
    /\ matches' = [matches EXCEPT ![r] = {}]
    /\ keys' = [keys EXCEPT ![r] = {}]
    /\ written' = [written EXCEPT ![r] = {}]
    /\ victim' = [victim EXCEPT ![r] = FALSE]
    /\ faces' = {[f EXCEPT !.by = IF @ = r THEN 0 ELSE @] : f \in faces}
    /\ UNCHANGED <<scratch, s3, cacheFile, collection, nreq>>
    /\ UNCHANGED <<histVars, zipVars>>

\* ---------------------------------------------------------- download_zip
\* What request.body can be: not JSON at all, or a JSON object whose "keys"
\* is a list of keys (an object without "keys" is the empty list, line 182).
Bodies == {<<"invalid">>} \cup {<<"json", k>> : k \in SeqsOf(Names, 0, MaxKeys)}

\* Lines 177-187: the method, the body and the key list are checked; each
\* failure is answered 400 and no archive is made.
ZipReceive ==
    /\ zpc = "idle"
    /\ nreq < MaxRequests
    /\ nreq' = nreq + 1
    /\ \E m \in {"POST", "GET"}, body \in Bodies :
          /\ zreq' = [method |-> m, body |-> body]
          /\ IF m # "POST" \/ body[1] # "json" \/ body[2] = << >>
             THEN /\ zstatus' = 400
                  /\ zpc' = "done"
                  /\ zkeys' = << >>
             ELSE /\ zstatus' = 0
                  /\ zpc' = "fetch"
                  /\ zkeys' = body[2]
    /\ UNCHANGED <<zidx, zentries, zfetched>>
    /\ UNCHANGED <<scratch, s3, cacheFile, collection, faces>>
    /\ UNCHANGED <<uploadVars, histVars>>

\* After the key at zidx: the next key, or lines 198-201 (the archive is
\* returned with status 200).
ZipAdvance ==
    /\ zidx' = zidx + 1
    /\ IF zidx < Len(zkeys)
       THEN /\ zpc' = "fetch"
            /\ zstatus' = zstatus
       ELSE /\ zpc' = "done"
            /\ zstatus' = 200

\* Lines 193-195: get_object succeeds and the object is written to the
\* archive under the key.
ZipFetch ==
    /\ zpc = "fetch"
    /\ s3[zkeys[zidx]] # NoFile
    /\ zentries' = Append(zentries,
                          [name |-> zkeys[zidx], content |-> s3[zkeys[zidx]]])
    /\ zfetched' = Append(zfetched, TRUE)
    /\ ZipAdvance
    /\ UNCHANGED <<zreq, zkeys, sharedVars, uploadVars, histVars>>

\* A faulty ZipFetchError: the key that failed gets an empty entry.
ZipFetchErrorEmptyEntry ==
    /\ zpc = "fetch"
    /\ zentries' = Append(zentries, [name |-> zkeys[zidx], content |-> NoFile])
    /\ zfetched' = Append(zfetched, FALSE)
    /\ ZipAdvance
    /\ UNCHANGED <<zreq, zkeys, sharedVars, uploadVars, histVars>>

\* Lines 196-197: get_object raises (no such key, or a transfer error) and
\* the key is passed over.
ZipFetchError ==
    /\ zpc = "fetch"
    /\ zfetched' = Append(zfetched, FALSE)
    /\ ZipAdvance
    /\ UNCHANGED <<zreq, zkeys, zentries, sharedVars, uploadVars, histVars>>

\* The response has been sent.
ZipReturn ==
    /\ zpc = "done"
    /\ zpc' = "idle"
    /\ zreq' = NoZipRequest
    /\ zkeys' = << >>
    /\ zidx' = 1
    /\ zentries' = << >>
    /\ zfetched' = << >>
    /\ zstatus' = 0
    /\ UNCHANGED <<sharedVars, uploadVars, histVars>>

\* -------------------------------------------------------- specifications
\* The steps of an upload request once it is received, its files named in N.
Handle(r, N) ==
    \/ EnsureCollection(r)
    \/ EnsureCollectionError(r)
    \/ SaveGallery(r, N)
    \/ UploadToS3(r)
    \/ UploadToS3Error(r)
    \/ SaveRef(r, N)
    \/ LoadCache(r)
    \/ HashFile(r)
    \/ IndexFaces(r)
    \/ IndexFacesError(r)
    \/ SaveCacheOpen(r)
    \/ SaveCacheDump(r)
    \/ Search(r)
    \/ SearchError(r)
    \/ ListDir(r)
    \/ Remove(r)
    \/ Return(r)

\* One request at a time (the scheduling model of a single synchronous
\* worker): a request is received only when no handler is in flight.
ReceiveAlone == AllIdle /\ Receive(1, MaxGallery, MaxRequests)

ZipReceiveAlone == AllIdle /\ ZipReceive

Next ==
    \/ ReceiveAlone
    \/ ZipReceiveAlone
    \/ Handle(1, Names)
    \/ ZipFetch
    \/ ZipFetchError
    \/ ZipReturn

Spec == Init /\ [][Next]_vars

\* The names used by the clients of concurrent runs.
ConcNames == {"a.jpg", "b.PNG"}

\* Upload requests in flight at once (several workers or threads over the
\* same UPLOAD_FOLDER and CACHE_FILE): the first MaxOverlap requests of a run
\* may overlap, each with one gallery file; the requests after them are
\* received when no handler is in flight.
ReceiveConc(r) ==
    /\ nreq < MaxOverlap \/ AllIdle
    /\ Receive(r, 1, MaxConcRequests)

NextConc ==
    \/ \E r \in Slots : ReceiveConc(r)
    \/ \E r \in Slots : Handle(r, ConcNames)

SpecConc == Init /\ [][NextConc]_vars

\* ------------------------------------------------------------ properties
\* The upload handler r has answered 200.
Answered(r) == pc[r] = "done" /\ status[r] = 200

\* C1: the keys an upload request returns never rest on a match that belongs
\* to a collection entry indexed by an earlier, unrelated request: every
\* face behind a returned key was indexed by the current request, or is at
\* least one of its gallery files (same name, same bytes).
C1_KeysAreOfThisBatch ==
    \A r \in Slots : Answered(r) =>
        \A f \in matches[r] : f.id \in keys[r] =>
            \/ f.by = r
            \/ \E i \in 1..Len(gallery[r]) :
                  gallery[r][i] = [name |-> f.id, content |-> f.content]

\* C2, as claimed: index_faces is never called for a gallery file whose
\* content an earlier gallery file of another name had, in the same batch or
\* in an earlier request.
C2_SecondIsSkipped ==
    \A r \in Slots : pc[r] = "index" =>
        ~\E f \in handled : /\ f.content = gallery[r][idx[r]].content
                            /\ f.name # gallery[r][idx[r]].name

\* C2, amended: index_faces is never called for a gallery file when the
\* digest of its scratch copy was recorded in the cache after a successful
\* index call, earlier in the batch or in an earlier request.
C2_RecordedFingerprintIsSkipped ==
    \A r \in Slots : pc[r] = "index" => img_hash[r] \notin recorded

\* C2, the case: the only gallery file of the second request was skipped,
\* and a file of another name with the same content was indexed before.
C2_Witness ==
    /\ nreq = 2
    /\ outcomes[1] = <<"skipped">>
    /\ \E f \in faces : /\ f.by = 0
                        /\ f.content = gallery[1][1].content
                        /\ f.id # gallery[1][1].name

\* C3: when upload_images is over, whatever its outcome, no file it wrote
\* is left in UPLOAD_FOLDER.
C3_ScratchIsSwept ==
    \A r \in Slots : pc[r] = "done" =>
        \A n \in written[r] : scratch[n] = NoFile

\* A POST without gallery files or without the reference file.
MissingFiles(r) == method[r] = "POST" /\ (nfiles[r] = 0 \/ ~hasref[r])

\* C4, as claimed: a POST with the gallery list or the reference missing is
\* answered 400.
C4_MissingFilesAnswered400 ==
    \A r \in Slots : pc[r] = "done" /\ MissingFiles(r) => status[r] = 400

\* C4, amended: such a POST is answered 400, unless create_collection raised
\* and the request aborted; either way no step of it changes the scratch
\* directory, the bucket, the cache file or the indexed faces.
C4_MissingFilesChangeNothing ==
    /\ [](\A r \in Slots : pc[r] = "done" /\ MissingFiles(r) =>
              \/ status[r] = 400
              \/ status[r] = 500 /\ error[r] = "create_collection")
    /\ [][(\E r \in Slots : MissingFiles(r)) =>
              UNCHANGED <<scratch, s3, cacheFile, faces>>]_vars

\* C4, the case: a POST with gallery files and no reference was answered
\* 400, after an earlier request had left state behind.
C4_Witness ==
    /\ pc[1] = "done" /\ status[1] = 400
    /\ method[1] = "POST" /\ nfiles[1] > 0 /\ ~hasref[1]
    /\ faces # {}

\* C5: load_cache never fails its caller: no request ends on an exception
\* out of load_cache.
C5_LoadCacheNeverRaises ==
    \A r \in Slots : error[r] # "json.load:JSONDecodeError"

\* The fingerprints that are keys of a cache dict.
KeysOf(c) == {h \in Hashes : c[h] # NoEntry}

\* The positions of the batch whose index call succeeded.
Indexed(r) == {i \in 1..Len(outcomes[r]) : outcomes[r][i] = "indexed"}

\* C6: a failed index call skips that file alone. While the loop runs every
\* path passed has its outcome and the cache file is as it was loaded; the
\* dict holds one new entry per successful call, named after its file, and
\* none for a failed call; after the loop every path has been handled, and
\* at the search the cache file holds the dict.
C6_FailedIndexSkipsOneFile ==
    \A r \in Slots :
        /\ pc[r] \in {"loop", "index"} => Len(outcomes[r]) = idx[r] - 1
        /\ pc[r] \in {"loop", "index", "save"} =>
              LET new == KeysOf(cache[r]) \ KeysOf(cacheFile.data) IN
              /\ Cardinality(new) = Cardinality(Indexed(r))
              /\ \A h \in new : \E i \in Indexed(r) :
                                   cache[r][h] = gallery[r][i].name
        /\ pc[r] \in {"save", "dump", "search"} =>
              Len(outcomes[r]) = nfiles[r] /\ status[r] = 0
        /\ pc[r] = "search" =>
              cacheFile = [state |-> "json", data |-> cache[r]]

\* C6, the case: the first index call failed, the second file was indexed,
\* and the request is at the search.
C6_Witness ==
    /\ pc[1] = "search"
    /\ outcomes[1] = <<"failed", "indexed">>

\* The keys whose fetch succeeded, in order.
RECURSIVE Kept(_, _)
Kept(ks, ok) ==
    IF ks = << >> THEN << >>
    ELSE IF Head(ok) THEN <<Head(ks)>> \o Kept(Tail(ks), Tail(ok))
    ELSE Kept(Tail(ks), Tail(ok))

\* The request carries a non-empty key list.
HasKeys(q) == q.method = "POST" /\ q.body[1] = "json" /\ q.body[2] # << >>

\* C7: download_zip answers a non-empty key list with 200 and an archive
\* of one entry per key fetched, in request order and named by the key; an
\* empty key list (or no list) is answered 400 without an archive.
C7_ArchiveHoldsFetchedKeys ==
    zpc = "done" =>
        IF HasKeys(zreq)
        THEN /\ zstatus = 200
             /\ Len(zfetched) = Len(zreq.body[2])
             /\ [i \in 1..Len(zentries) |-> zentries[i].name]
                   = Kept(zreq.body[2], zfetched)
        ELSE zstatus = 400 /\ zentries = << >>

\* C7, the case: two keys, the first fetched and the second not.
C7_Witness ==
    /\ zpc = "done"
    /\ zfetched = <<TRUE, FALSE>>
    /\ Len(zentries) = 1

\* The exceptions of a read of a scratch file that is gone.
GoneErrors == {"upload_file:FileNotFoundError", "file_hash:FileNotFoundError",
               "open:FileNotFoundError"}

\* C8: with requests in flight together, a handler finds one of its scratch
\* files gone only after another request's sweep removed a file it had
\* written and not finished using.
C8_GoneOnlyBySweep ==
    \A r \in Slots : error[r] \in GoneErrors => victim[r]

\* C8, the case: another request's sweep removed a file the handler still
\* used, and the handler failed on hashing it or on reading the reference.
C8_Witness ==
    \E r \in Slots :
        /\ victim[r]
        /\ error[r] \in {"file_hash:FileNotFoundError", "open:FileNotFoundError"}

\* C9: a fingerprint recorded after a successful index call is missing from
\* the cache file, with no handler at work, only when requests overlapped.
C9_LostOnlyByOverlap ==
    (AllIdle /\ \E h \in recorded : cacheFile.data[h] = NoEntry) => overlapped

\* C9, the case: after two overlapping batches a later request, alone, is
\* about to index content whose fingerprint had been recorded.
C9_Witness ==
    /\ nreq = 3
    /\ overlapped
    /\ \E r \in Slots :
          /\ pc[r] = "index"
          /\ img_hash[r] \in recorded
          /\ \E f \in faces : MD5(f.content) = img_hash[r]
          /\ \A q \in Slots \ {r} : pc[q] = "idle"

\* C10: the fingerprint of every cache entry added is the digest of the
\* bytes that were indexed.
C10_FingerprintOfIndexedBytes ==
    \A r \in Slots :
        lastAdded[r] # NoAdded => lastAdded[r].fp = MD5(lastAdded[r].bytes)

====
